---- MODULE Spec2Model ----
(***************************************************************************)
(* EcomOps agent: the tool catalogue of server.py (one database connection *)
(* per tool invocation), the four-stage pipeline of main.py                *)
(* (call_mcp_agent, driven by the converse handler) and the ManagerId      *)
(* scoping of the audit queries.                                           *)
(*                                                                         *)
(* Texts (tool results, prompts, error messages) are sequences of tokens:  *)
(* an f-string is the concatenation of its pieces, "begins with" is a      *)
(* prefix test and Python's `"Error:" in text` is a token membership test. *)
(***************************************************************************)
EXTENDS Integers, Sequences, FiniteSets, TLC

VARIABLES
    call,        \* the tool invocation in progress in the server process
    ncalls,      \* tool invocations started so far
    conns,       \* every tenant connection get_conn has opened: state and open transaction
    dbCommitted, \* writes committed on the tenant database
    run,         \* the converse request being served and its pipeline run
    nreq,        \* converse requests received so far
    threads,     \* chat_threads rows committed on the master database
    messages,    \* chat_messages rows committed on the master database
    auditTable,  \* the audit rows of all managers in one tenant database
    scoped,      \* the ManagerId-scoped tool call just answered, or NoScopedCall
    workers,     \* the tool invocations running side by side, one per server process
    connLog,     \* which invocation opened, used and closed which connection
    growth,      \* the get_growth_trends call just answered, or NoGrowthCall
    managerConfigs, \* manager_configs rows committed on the master database
    response     \* the last response of the register and login handlers

toolVars == <<call, ncalls, conns, dbCommitted>>

pipeVars == <<run, nreq, threads, messages>>

isoVars == <<auditTable, scoped>>

concVars == <<workers, connLog>>

growthVars == <<growth>>

authVars == <<managerConfigs, response>>

vars == <<call, ncalls, conns, dbCommitted, run, nreq, threads, messages,
          auditTable, scoped, workers, connLog, growth, managerConfigs, response>>

----------------------------------------------------------------------------
(* Bounds *)

MaxCalls == 3

----------------------------------------------------------------------------
(* Texts *)

StartsWith(s, p) == Len(s) >= Len(p) /\ SubSeq(s, 1, Len(p)) = p

EndsWith(s, p) == Len(s) >= Len(p) /\ SubSeq(s, Len(s) - Len(p) + 1, Len(s)) = p

Contains(s, tok) == \E i \in 1..Len(s) : s[i] = tok

----------------------------------------------------------------------------
(* The tool catalogue of server.py *)

ToolNames ==
    { "get_activity_summary", "get_recent_activity", "get_user_activity",
      "get_data_modifications", "get_active_connections", "get_slow_queries",
      "get_failed_operations", "get_privileged_activity",
      "detect_anomalous_activity", "get_growth_trends",
      "inspect_schema", "track_activity", "execute_sql", "clone_product_by_name" }

\* Tools that call get_conn inside their try block (the others call it on the
\* line before `try:`).
ConnectInsideTry(tool) ==
    tool \in {"inspect_schema", "track_activity", "execute_sql", "clone_product_by_name"}

\* execute_sql written like its neighbours, with a bare `finally: conn.close()`.
FinallyGuardedNowhere(tool) == FALSE

\* Only execute_sql guards its `finally: conn.close()` with `'conn' in locals()`.
FinallyGuarded(tool) == tool = "execute_sql"

\* The tag each tool's `except Exception` clause puts in front of str(e).
ErrorTag(tool) ==
    CASE tool = "get_activity_summary"      -> <<"Database", "Error:">>
      [] tool = "get_recent_activity"       -> <<"Audit", "Error:">>
      [] tool = "get_user_activity"         -> <<"Accountability", "Audit", "Error:">>
      [] tool = "get_data_modifications"    -> <<"Modification", "Audit", "Error:">>
      [] tool = "get_active_connections"    -> <<"System", "Health", "Error:">>
      [] tool = "get_slow_queries"          -> <<"Performance", "Audit", "Error:">>
      [] tool = "get_failed_operations"     -> <<"Diagnostic", "Tool", "Error:">>
      [] tool = "get_privileged_activity"   -> <<"Security", "Audit", "Error:">>
      [] tool = "detect_anomalous_activity" -> <<"Anomaly", "Detection", "Error:">>
      [] tool = "get_growth_trends"         -> <<"Growth", "Analysis", "Error:">>
      [] tool = "inspect_schema"            -> <<"Error:">>
      [] tool = "track_activity"            -> <<"Error:">>
      [] tool = "execute_sql"               -> <<"SQL", "Error:">>
      [] tool = "clone_product_by_name"     -> <<"Database", "Error:">>

\* An except clause that returns str(e) alone, its tag forgotten.
ExceptReturnUntagged(tool, msg) ==
    IF tool = "execute_sql"
    THEN ErrorTag(tool) \o msg \o <<".", "Check", "schema", "and", "try", "again.">>
    ELSE msg

\* What the `except Exception as e` clause returns for str(e) = msg.
ExceptReturn(tool, msg) ==
    IF tool = "execute_sql"
    THEN ErrorTag(tool) \o msg \o <<".", "Check", "schema", "and", "try", "again.">>
    ELSE ErrorTag(tool) \o msg

\* conn.close() as the last statement of the try block instead of a finally
\* block: skipped when an exception is caught.
ClosesAtEndOfTry(tool, exit) == exit # "except"

\* Every tool's `finally` block closes the connection, whichever way the try
\* block was left: "return" (rows), "sentinel" (no rows) or "except".
FinallyCloses(tool, exit) == TRUE

\* Tools that test `if not rows:` and return a plain sentence.
HasEmptySentinel(tool) ==
    tool \in { "get_activity_summary", "get_recent_activity", "get_user_activity",
               "get_data_modifications", "get_active_connections", "get_slow_queries",
               "get_failed_operations", "get_privileged_activity", "get_growth_trends" }

\* Tools that build records from the fetched rows (strftime, round, slicing,
\* arithmetic, json.dumps) inside the try block.
FormatsRows(tool) ==
    tool \notin {"inspect_schema", "track_activity", "execute_sql", "clone_product_by_name"}

\* The text returned when the query yields no row.
EmptyReturn(tool) ==
    CASE tool = "get_activity_summary"    -> <<"No activity recorded today for Manager ID:", "manager_id">>
      [] tool = "get_recent_activity"     -> <<"No recent activity found for Manager", "manager_id", ".">>
      [] tool = "get_user_activity"       -> <<"No activity records found for", "staff_identifier", "in the last", "days_back", "days.">>
      [] tool = "get_data_modifications"  -> <<"No matching data modifications found.">>
      [] tool = "get_active_connections"  -> <<"No active connections detected (highly unusual).">>
      [] tool = "get_slow_queries"        -> <<"No performance data available. (Ensure pg_stat_statements is enabled)">>
      [] tool = "get_failed_operations"   -> <<"Good news: No failed operations recorded recently.">>
      [] tool = "get_privileged_activity" -> <<"No privileged activities detected in the last", "timeframe_days", "days.">>
      [] tool = "get_growth_trends"       -> <<"No table data found.">>
      [] tool = "detect_anomalous_activity" ->
             <<"{", "analysis_status: Complete", "anomalies_found: 0", "alerts: []", "}">>
      [] OTHER                            -> <<"[", "]">>

\* The text returned for a non-empty row set: json.dumps of the tool's report,
\* or str(cur.fetchall()) for inspect_schema and track_activity.
RowsReturn(tool) ==
    IF tool \in {"inspect_schema", "track_activity"}
    THEN <<"[", "(row)", "]">>
    ELSE <<"{", tool, "report", "}">>

----------------------------------------------------------------------------
(* execute_sql *)

\* Statements a caller may pass: a query, a statement without result set, a
\* statement that writes and returns rows, and one the database cannot parse.
SqlStatements ==
    { <<"SELECT">>, <<"INSERT">>, <<"INSERT", "RETURNING">>, <<"I", "cannot", "answer">> }

NoSql == <<>>

StatementValid(sql) == sql \in { <<"SELECT">>, <<"INSERT">>, <<"INSERT", "RETURNING">> }

\* cur.description is set exactly for statements that produce a result set.
HasResultSet(sql) == sql \in { <<"SELECT">>, <<"INSERT", "RETURNING">> }

Mutates(sql) == sql \in { <<"INSERT">>, <<"INSERT", "RETURNING">> }

\* Row contents a result set may hold (the last one holds the text 'Error:').
RowTexts == { <<>>, <<"(1,", "'desk')">>, <<"('disk", "Error:", "full',)">> }

\* str(cur.fetchall())
Serialize(rows) == <<"[">> \o rows \o <<"]">>

\* execute_sql without its conn.commit(): close() discards the transaction.
CommitsNever(hasResultSet) == FALSE

\* conn.commit() placed right after cur.execute, before the description test.
CommitsAlways(hasResultSet) == TRUE

\* `if cur.description: return ...` comes first; conn.commit() is reached only
\* without a result set.
CommitsAfterExecute(hasResultSet) == ~hasResultSet

OperationSuccessful == <<"Operation", "successful.">>

----------------------------------------------------------------------------
(* Messages of the driver's exceptions, str(e) *)

ConnectErrors == { <<"connection", "refused">> }

QueryErrors == { <<"syntax", "error">>, <<"permission", "denied">> }

FormatErrors == { <<"NoneType", "has", "no", "attribute", "strftime">> }

CommitErrors == { <<"deferred", "constraint", "violated">> }

----------------------------------------------------------------------------
(* One tool invocation *)

IdleCall ==
    [ tool |-> "none", pc |-> "idle", conn |-> 0, attempts |-> 0,
      fault |-> "none", exit |-> "none", raised |-> "none", result |-> <<>>,
      sql |-> NoSql, rows |-> <<>>, committed |-> FALSE, empty |-> FALSE ]

\* get_conn keeping one module-level connection and handing it out while it
\* is open.
HandsOutTheOpenConnection ==
    IF \E i \in 1..Len(conns) : conns[i].state = "open"
    THEN conns
    ELSE Append(conns, [state |-> "open", txn |-> {}])

\* get_conn: psycopg2.connect, a new connection per call, no retry.
OpenConnection == Append(conns, [state |-> "open", txn |-> {}])

\* conn.close(): the open transaction is discarded.
CloseConnection(cs, id) == [cs EXCEPT ![id] = [state |-> "closed", txn |-> {}]]

\* The connection after the try block was left by `exit`.
AfterFinally(tool, cs, id, exit) ==
    IF FinallyCloses(tool, exit) THEN CloseConnection(cs, id) ELSE cs

NoScopedCall == [tool |-> "none"]

NoGrowthCall == [tool |-> "none"]

NoResponse ==
    [ handler |-> "none", email |-> "none", found |-> FALSE, verified |-> FALSE,
      fault |-> "none", status |-> 0, detail |-> <<>> ]

MaxWorkers == 2

MaxInvocations == 3

Workers == 1..MaxWorkers

\* A server process between two tool invocations; `inv` counts the ones it
\* has started, `conn` is the invocation's local variable.
IdleWorker == [pc |-> "idle", inv |-> 0, tenant |-> "none", conn |-> 0, live |-> TRUE]

\* No converse request in progress.
IdleRun ==
    [ pc |-> "idle", stages |-> <<>>, cid |-> "none", schema |-> <<>>,
      discoverFault |-> "none", sql |-> NoSql, raw |-> <<>>, execFault |-> "none",
      execCall |-> 0, message |-> <<>>, failedAt |-> "none", status |-> 0 ]

Init ==
    /\ call = IdleCall
    /\ ncalls = 0
    /\ conns = <<>>
    /\ dbCommitted = {}
    /\ run = IdleRun
    /\ nreq = 0
    /\ threads = {}
    /\ messages = <<>>
    /\ auditTable = {}
    /\ scoped = NoScopedCall
    /\ workers = [w \in Workers |-> IdleWorker]
    /\ connLog = {}
    /\ growth = NoGrowthCall
    /\ managerConfigs = {}
    /\ response = NoResponse

\* The MCP server dispatches a tool call; tool functions are synchronous, so
\* one runs at a time in the server process.
Invoke(tool, sql) ==
    /\ call.pc \in {"idle", "done"}
    /\ ncalls < MaxCalls
    /\ run.pc = "idle"
    /\ (tool = "execute_sql") <=> (sql # NoSql)
    /\ call' = [IdleCall EXCEPT !.tool = tool, !.pc = "connect", !.sql = sql]
    /\ ncalls' = ncalls + 1
    /\ UNCHANGED <<conns, dbCommitted>>
    /\ UNCHANGED pipeVars
    /\ UNCHANGED <<isoVars, concVars, growthVars, authVars>>

\* get_conn succeeds.
ConnectOk ==
    /\ call.pc = "connect"
    /\ conns' = OpenConnection
    /\ call' = [call EXCEPT !.pc = "body", !.conn = Len(conns) + 1,
                            !.attempts = @ + 1]
    /\ UNCHANGED <<ncalls, dbCommitted>>
    /\ UNCHANGED pipeVars
    /\ UNCHANGED <<isoVars, concVars, growthVars, authVars>>

\* get_conn raises. Before the try block the exception leaves the tool; inside
\* it the except clause returns the tagged text and then the finally block
\* runs with `conn` never assigned: conn.close() raises UnboundLocalError,
\* which replaces the return value, unless the block is guarded.
ConnectFails(msg) ==
    /\ call.pc = "connect"
    /\ call' =
         IF ~ConnectInsideTry(call.tool)
         THEN [call EXCEPT !.pc = "done", !.attempts = @ + 1, !.fault = "connect",
                           !.exit = "raise", !.raised = "OperationalError"]
         ELSE IF FinallyGuarded(call.tool)
         THEN [call EXCEPT !.pc = "done", !.attempts = @ + 1, !.fault = "connect",
                           !.exit = "except", !.result = ExceptReturn(call.tool, msg)]
         ELSE [call EXCEPT !.pc = "done", !.attempts = @ + 1, !.fault = "connect",
                           !.exit = "raise", !.raised = "UnboundLocalError"]
    /\ UNCHANGED <<ncalls, conns, dbCommitted>>
    /\ UNCHANGED pipeVars
    /\ UNCHANGED <<isoVars, concVars, growthVars, authVars>>

\* The body of a read tool on a live connection: execute, fetchall, the
\* empty test, the formatting of the rows, then the finally block.
ReadBody(outcome, msg) ==
    /\ call.pc = "body"
    /\ call.tool \notin {"execute_sql", "clone_product_by_name"}
    /\ \/ outcome = "rows" /\ msg = <<>>
       \/ outcome = "empty" /\ msg = <<>>
       \/ outcome = "query_error" /\ msg \in QueryErrors
       \/ outcome = "format_error" /\ msg \in FormatErrors /\ FormatsRows(call.tool)
    /\ LET exit == CASE outcome = "rows" -> "return"
                     [] outcome = "empty" ->
                          IF HasEmptySentinel(call.tool) THEN "sentinel" ELSE "return"
                     [] OTHER -> "except"
           text == CASE outcome = "rows"  -> RowsReturn(call.tool)
                     [] outcome = "empty" -> EmptyReturn(call.tool)
                     [] OTHER             -> ExceptReturn(call.tool, msg)
       IN /\ call' = [call EXCEPT !.pc = "done", !.exit = exit, !.result = text,
                        !.empty = (outcome = "empty"),
                        !.fault = CASE outcome = "query_error" -> "query"
                                    [] outcome = "format_error" -> "format"
                                    [] OTHER -> "none"]
          /\ conns' = AfterFinally(call.tool, conns, call.conn, exit)
    /\ UNCHANGED <<ncalls, dbCommitted>>
    /\ UNCHANGED pipeVars
    /\ UNCHANGED <<isoVars, concVars, growthVars, authVars>>

\* The body of execute_sql on a live connection. `db` is how the database
\* takes the statement: "ok", "rejected" (cur.execute raises on a valid
\* statement) or "commit_fails" (conn.commit raises).
ExecuteSqlBody(db, rows, msg) ==
    /\ call.pc = "body"
    /\ call.tool = "execute_sql"
    /\ LET sql == call.sql
           executeFails == ~StatementValid(sql) \/ db = "rejected"
           commitIssued == ~executeFails /\ CommitsAfterExecute(HasResultSet(sql))
           commitFails == commitIssued /\ db = "commit_fails"
           returnsRows == ~executeFails /\ HasResultSet(sql)
           writes == IF Mutates(sql) /\ ~executeFails
                     THEN {[call |-> ncalls, sql |-> sql]} ELSE {}
           exit == IF executeFails \/ commitFails THEN "except" ELSE "return"
           text == CASE executeFails \/ commitFails -> ExceptReturn("execute_sql", msg)
                     [] returnsRows -> Serialize(rows)
                     [] OTHER -> OperationSuccessful
       IN /\ executeFails => msg \in QueryErrors /\ rows = <<>>
          /\ commitFails => msg \in CommitErrors /\ rows = <<>>
          /\ ~(executeFails \/ commitFails) => msg = <<>>
          /\ ~returnsRows => rows = <<>>
          /\ db = "commit_fails" => commitFails
          /\ db = "rejected" => StatementValid(sql)
          /\ call' = [call EXCEPT !.pc = "done", !.exit = exit, !.result = text,
                        !.rows = rows,
                        !.empty = (returnsRows /\ rows = <<>>),
                        !.committed = commitIssued /\ ~commitFails,
                        !.fault = CASE executeFails -> "query"
                                    [] commitFails -> "commit"
                                    [] OTHER -> "none"]
          /\ dbCommitted' = IF commitIssued /\ ~commitFails
                            THEN dbCommitted \cup writes ELSE dbCommitted
          /\ conns' = AfterFinally("execute_sql", conns, call.conn, exit)
    /\ UNCHANGED ncalls
    /\ UNCHANGED pipeVars
    /\ UNCHANGED <<isoVars, concVars, growthVars, authVars>>

\* The products table: the rows present from the start, by name, and the
\* names of the rows that committed clone calls have added.
ProductNames == {"widget", "gadget"}

SeedProducts == {"widget"}

ProductNamesIn(db) ==
    SeedProducts \cup {w.sql[2] : w \in {x \in db : x.sql[1] = "CLONE"}}

\* The INSERT placed ahead of the `if not source` return.
CloneInsertsBeforeLookup(outcome) == outcome \in {"cloned", "not_found"}

\* The INSERT and conn.commit() are reached only past the not-found return and
\* take effect only when neither raises.
CloneCommits(outcome) == outcome = "cloned"

\* The body of clone_product_by_name on a live connection: the SELECT, the
\* not-found return, the INSERT and the commit.
CloneBody(outcome, msg, source_name, new_name) ==
    /\ call.pc = "body"
    /\ call.tool = "clone_product_by_name"
    /\ \/ outcome \in {"cloned", "not_found"} /\ msg = <<>>
       \/ outcome \in {"select_error", "insert_error"} /\ msg \in QueryErrors
       \/ outcome = "commit_error" /\ msg \in CommitErrors
    /\ outcome = "not_found" => source_name \notin ProductNamesIn(dbCommitted)
    /\ outcome \in {"cloned", "insert_error", "commit_error"} =>
           source_name \in ProductNamesIn(dbCommitted)
    /\ LET exit == CASE outcome = "cloned" -> "return"
                     [] outcome = "not_found" -> "sentinel"
                     [] OTHER -> "except"
           text == CASE outcome = "cloned" ->
                          <<"Successfully", "added", new_name, "(ID:", "new_id)">>
                     [] outcome = "not_found" ->
                          <<"Error:", "Source", "product", source_name, "not", "found.">>
                     [] OTHER -> ExceptReturn("clone_product_by_name", msg)
       IN /\ call' = [call EXCEPT !.pc = "done", !.exit = exit, !.result = text,
                        !.sql = <<source_name, new_name>>,
                        !.empty = (outcome = "not_found"),
                        !.committed = CloneCommits(outcome),
                        !.fault = CASE outcome \in {"select_error", "insert_error"} -> "query"
                                    [] outcome = "commit_error" -> "commit"
                                    [] OTHER -> "none"]
          /\ dbCommitted' = IF CloneCommits(outcome)
                            THEN dbCommitted \cup
                                     {[call |-> ncalls, sql |-> <<"CLONE", new_name>>]}
                            ELSE dbCommitted
          /\ conns' = AfterFinally("clone_product_by_name", conns, call.conn, exit)
    /\ UNCHANGED ncalls
    /\ UNCHANGED pipeVars
    /\ UNCHANGED <<isoVars, concVars, growthVars, authVars>>

Next ==
    \/ \E tool \in ToolNames, sql \in SqlStatements \cup {NoSql} : Invoke(tool, sql)
    \/ ConnectOk
    \/ \E msg \in ConnectErrors : ConnectFails(msg)
    \/ \E outcome \in {"rows", "empty", "query_error", "format_error"},
          msg \in QueryErrors \cup FormatErrors \cup {<<>>} : ReadBody(outcome, msg)
    \/ \E db \in {"ok", "rejected", "commit_fails"}, rows \in RowTexts,
          msg \in QueryErrors \cup CommitErrors \cup {<<>>} : ExecuteSqlBody(db, rows, msg)
    \/ \E outcome \in {"cloned", "not_found", "select_error", "insert_error", "commit_error"},
          msg \in QueryErrors \cup CommitErrors \cup {<<>>},
          source_name \in ProductNames, new_name \in ProductNames :
              CloneBody(outcome, msg, source_name, new_name)

Spec == Init /\ [][Next]_vars

----------------------------------------------------------------------------
(* The converse handler and the pipeline of call_mcp_agent (main.py) *)

MaxRequests == 1

StageOrder == <<"Discover", "Synthesize", "Execute", "Summarize">>

Prompt == <<"how", "many", "orders", "today">>

\* conversation_id values a client may send: none, a client-side temporary id,
\* and thread ids (the pool uuid4 draws from, and one it never draws).
NoConversation == "none"

UuidPool == <<"uuid-1", "uuid-2", "uuid-3", "uuid-4">>

ConversationIds == {NoConversation, "conv_1", "uuid-1", "uuid-9"}

\* real_conv_id.startswith('conv_')
StartsWithConv(cid) == cid = "conv_1"

\* What the language model may answer to the synthesis prompt.
LlmSqlReplies ==
    { <<"<fence>sql", "SELECT", "<fence>">>, <<"INSERT">>,
      <<"<fence>", "INSERT", "RETURNING", "<fence>">>, <<"I", "cannot", "answer">> }

\* .replace(<fence>sql, "").replace(<fence>, "").strip(): the Markdown code
\* fences (three backquotes) are removed, then the surrounding blanks.
CleanSql(content) == SelectSeq(content, LAMBDA tok : tok \notin {"<fence>sql", "<fence>"})

\* What the language model answers to the summary prompt.
LlmSummary == <<"STATUS", "ANALYSIS", "DATA TABLE", "RECOMMENDATION">>

DatabaseFailureMessage == <<"(cross mark)", "Database">>

\* What session.call_tool gives the pipeline for a finished tool call. A tool
\* that returned gives its text. For a tool that raised, the tool invocation
\* protocol decides: it reports the failure as the call's text content
\* (MCP's isError result), or call_tool itself raises.
CallToolOutcomes(c) ==
    IF c.raised = "none"
    THEN { [raises |-> FALSE, text |-> c.result] }
    ELSE { [raises |-> FALSE,
            text |-> <<"Error", "executing", "tool", c.tool, c.raised>>],
           [raises |-> TRUE, text |-> <<>>] }

\* Every exception raised inside a handler's try block, HTTPException
\* included, is caught by `except Exception` and re-raised as a 500.
ExceptStatus(raisedStatus) == 500

\* A retry loop: an Execute error sends the run back to synthesis.
AfterExecuteRetries(raw) == IF Contains(raw, "Error:") THEN "synthesize" ELSE "summarize"

\* call_mcp_agent after execute_sql returned `raw`: the fixed failure message
\* when the text holds "Error:", the summary call otherwise.
AfterExecute(raw) == IF Contains(raw, "Error:") THEN "persist" ELSE "summarize"

\* A pipeline that gives up when the schema text is an error text.
AfterDiscoverStopsOnError(text) ==
    IF Contains(text, "Error:") THEN "responded" ELSE "synthesize"

\* call_mcp_agent after inspect_schema's call returned a text: synthesis
\* follows, whatever the text is.
AfterDiscover(text) == "synthesize"

\* The request fails: `except Exception` rolls the master connection back (no
\* history row was committed) and raises the HTTP error; the tenant database
\* is not touched.
RequestFails(r, stage, raisedStatus) ==
    /\ run' = [r EXCEPT !.pc = "responded", !.failedAt = stage,
                        !.status = ExceptStatus(raisedStatus)]
    /\ UNCHANGED <<threads, messages, dbCommitted>>

\* POST /api/v1/converse arrives: master connection, then the manager's config.
ConverseStart(cid, master) ==
    /\ run.pc \in {"idle", "responded"}
    /\ call.pc \in {"idle", "done"}
    /\ nreq < MaxRequests
    /\ nreq' = nreq + 1
    /\ \/ /\ master = "ok"
          /\ run' = [IdleRun EXCEPT !.pc = "session", !.cid = cid]
       \/ /\ master = "connect_error"
          /\ run' = [IdleRun EXCEPT !.pc = "responded", !.cid = cid,
                       !.failedAt = "MasterConnect", !.status = ExceptStatus(500)]
       \/ /\ master = "no_config"
          /\ run' = [IdleRun EXCEPT !.pc = "responded", !.cid = cid,
                       !.failedAt = "Config", !.status = ExceptStatus(404)]
    /\ UNCHANGED <<threads, messages>>
    /\ UNCHANGED toolVars
    /\ UNCHANGED <<isoVars, concVars, growthVars, authVars>>

\* stdio_client / ClientSession / session.initialize
SessionOpens ==
    /\ run.pc = "session"
    /\ run' = [run EXCEPT !.pc = "discover"]
    /\ UNCHANGED <<nreq, threads, messages>>
    /\ UNCHANGED toolVars
    /\ UNCHANGED <<isoVars, concVars, growthVars, authVars>>

SessionFails ==
    /\ run.pc = "session"
    /\ RequestFails(run, "Session", 500)
    /\ UNCHANGED <<nreq, call, ncalls, conns>>
    /\ UNCHANGED <<isoVars, concVars, growthVars, authVars>>

\* Stage 1: session.call_tool("inspect_schema", ...)
Discover ==
    /\ run.pc = "discover"
    /\ run' = [run EXCEPT !.pc = "discover_wait", !.stages = Append(@, "Discover")]
    /\ call' = [IdleCall EXCEPT !.tool = "inspect_schema", !.pc = "connect"]
    /\ ncalls' = ncalls + 1
    /\ UNCHANGED <<conns, dbCommitted, nreq, threads, messages>>
    /\ UNCHANGED <<isoVars, concVars, growthVars, authVars>>

DiscoverReturns(res) ==
    /\ run.pc = "discover_wait"
    /\ call.pc = "done"
    /\ res \in CallToolOutcomes(call)
    /\ IF res.raises
       THEN RequestFails([run EXCEPT !.discoverFault = call.fault], "Discover", 500)
       ELSE /\ run' = [run EXCEPT !.pc = AfterDiscover(res.text), !.schema = res.text,
                                  !.discoverFault = call.fault]
            /\ UNCHANGED <<threads, messages, dbCommitted>>
    /\ UNCHANGED <<nreq, call, ncalls, conns>>
    /\ UNCHANGED <<isoVars, concVars, growthVars, authVars>>

\* Stage 2: the synthesis prompt, then the fences are stripped.
Synthesize(content) ==
    /\ run.pc = "synthesize"
    /\ run' = [run EXCEPT !.pc = "execute", !.stages = Append(@, "Synthesize"),
                          !.sql = CleanSql(content)]
    /\ UNCHANGED <<nreq, threads, messages>>
    /\ UNCHANGED toolVars
    /\ UNCHANGED <<isoVars, concVars, growthVars, authVars>>

SynthesizeFails ==
    /\ run.pc = "synthesize"
    /\ run' = [run EXCEPT !.pc = "responded", !.stages = Append(@, "Synthesize"),
                          !.failedAt = "Synthesize", !.status = ExceptStatus(500)]
    /\ UNCHANGED <<nreq, threads, messages>>
    /\ UNCHANGED toolVars
    /\ UNCHANGED <<isoVars, concVars, growthVars, authVars>>

\* Stage 3: session.call_tool("execute_sql", sql_query = clean_sql, ...)
Execute ==
    /\ run.pc = "execute"
    /\ run' = [run EXCEPT !.pc = "execute_wait", !.stages = Append(@, "Execute"),
                          !.execCall = ncalls + 1]
    /\ call' = [IdleCall EXCEPT !.tool = "execute_sql", !.pc = "connect", !.sql = run.sql]
    /\ ncalls' = ncalls + 1
    /\ UNCHANGED <<conns, dbCommitted, nreq, threads, messages>>
    /\ UNCHANGED <<isoVars, concVars, growthVars, authVars>>

ExecuteReturns(res) ==
    /\ run.pc = "execute_wait"
    /\ call.pc = "done"
    /\ res \in CallToolOutcomes(call)
    /\ IF res.raises
       THEN RequestFails(run, "Execute", 500)
       ELSE /\ run' = [run EXCEPT !.pc = AfterExecute(res.text), !.raw = res.text,
                         !.execFault = call.fault,
                         !.message = IF AfterExecute(res.text) = "persist"
                                     THEN DatabaseFailureMessage ELSE @]
            /\ UNCHANGED <<threads, messages, dbCommitted>>
    /\ UNCHANGED <<nreq, call, ncalls, conns>>
    /\ UNCHANGED <<isoVars, concVars, growthVars, authVars>>

\* Stage 4: the summary prompt.
Summarize ==
    /\ run.pc = "summarize"
    /\ run' = [run EXCEPT !.pc = "persist", !.stages = Append(@, "Summarize"),
                          !.message = LlmSummary]
    /\ UNCHANGED <<nreq, threads, messages>>
    /\ UNCHANGED toolVars
    /\ UNCHANGED <<isoVars, concVars, growthVars, authVars>>

SummarizeFails ==
    /\ run.pc = "summarize"
    /\ run' = [run EXCEPT !.pc = "responded", !.stages = Append(@, "Summarize"),
                          !.failedAt = "Summarize", !.status = ExceptStatus(500)]
    /\ UNCHANGED <<nreq, threads, messages>>
    /\ UNCHANGED toolVars
    /\ UNCHANGED <<isoVars, concVars, growthVars, authVars>>

\* real_conv_id: a new uuid4 when the request has no conversation id or a
\* client-side temporary one, the request's id otherwise.
RealConversationId(cid, n) ==
    IF cid = NoConversation \/ StartsWithConv(cid) THEN UuidPool[n] ELSE cid

\* The two chat_messages rows of a request, in insertion order.
HistoryRows(real, message) ==
    << [conv |-> real, role |-> "user", content |-> Prompt],
       [conv |-> real, role |-> "assistant", content |-> message] >>

\* A master connection in autocommit mode: what was executed stays.
NotRolledBack(committed, withPending) == withPending

\* `except Exception: if conn: conn.rollback()`: the statements executed since
\* the connection was opened are discarded.
RolledBack(committed, withPending) == committed

\* converse step 3: the conversation id, the thread row, the two message rows,
\* one commit.
Persist ==
    /\ run.pc = "persist"
    /\ LET real == RealConversationId(run.cid, nreq)
       IN /\ threads' = threads \cup {real}
          /\ messages' = messages \o HistoryRows(real, run.message)
          /\ run' = [run EXCEPT !.pc = "responded", !.status = 200, !.cid = real]
    /\ UNCHANGED nreq
    /\ UNCHANGED toolVars
    /\ UNCHANGED <<isoVars, concVars, growthVars, authVars>>

\* A history statement or the commit raises after `done` of the three INSERTs
\* (thread, user message, assistant message) were executed.
PersistFails(done) ==
    /\ run.pc = "persist"
    /\ LET real == RealConversationId(run.cid, nreq)
           pendingThreads == IF done >= 1 THEN threads \cup {real} ELSE threads
           pendingMessages ==
               messages \o SubSeq(HistoryRows(real, run.message), 1,
                                  IF done >= 1 THEN done - 1 ELSE 0)
       IN /\ threads' = RolledBack(threads, pendingThreads)
          /\ messages' = RolledBack(messages, pendingMessages)
    /\ run' = [run EXCEPT !.pc = "responded", !.failedAt = "Persist",
                          !.status = ExceptStatus(500)]
    /\ UNCHANGED <<nreq, call, ncalls, conns, dbCommitted>>
    /\ UNCHANGED <<isoVars, concVars, growthVars, authVars>>

\* The tool functions run in the server process the pipeline started.
ToolStep ==
    /\ run.pc \in {"discover_wait", "execute_wait"}
    /\ \/ ConnectOk
       \/ \E msg \in ConnectErrors : ConnectFails(msg)
       \/ \E outcome \in {"rows", "empty", "query_error"}, msg \in QueryErrors \cup {<<>>} :
              ReadBody(outcome, msg)
       \/ \E db \in {"ok", "rejected", "commit_fails"}, rows \in RowTexts,
             msg \in QueryErrors \cup CommitErrors \cup {<<>>} : ExecuteSqlBody(db, rows, msg)

NextPipeline ==
    \/ \E cid \in ConversationIds, master \in {"ok", "connect_error", "no_config"} :
           ConverseStart(cid, master)
    \/ SessionOpens
    \/ SessionFails
    \/ Discover
    \/ \E res \in CallToolOutcomes(call) : DiscoverReturns(res)
    \/ \E content \in LlmSqlReplies : Synthesize(content)
    \/ SynthesizeFails
    \/ Execute
    \/ \E res \in CallToolOutcomes(call) : ExecuteReturns(res)
    \/ Summarize
    \/ SummarizeFails
    \/ Persist
    \/ \E done \in 0..3 : PersistFails(done)
    \/ ToolStep

SpecPipeline == Init /\ [][NextPipeline]_vars

----------------------------------------------------------------------------
(* The ManagerId-scoped audit tools (server.py). Each tool reads its own table
   or view (global_activity_feed, global_audit_trace, staff_activity_trace,
   system_audit_logs, system_error_logs); every one of them carries a
   manager_id column, and the model keeps their rows in one table whose rows
   have all the columns the seven queries read. *)

MaxRows == 2

Managers == {"A", "B"}

\* Time is counted in hours. Now is the instant of the call (NOW()): day 10,
\* 04:00. CURRENT_DATE is the start of that day.
Now == 244

HoursPerDay == 24

BaselineDays == 7

RecentHours == 1

TimingWindowHours == 24

LateHourFrom == 0

LateHourTo == 5

PrivilegedHighAbove == 5

CurrentDate == (Now \div HoursPerDay) * HoursPerDay

DayOf(ts) == ts \div HoursPerDay

HourOf(ts) == ts % HoursPerDay

None == "none"

\* The audit rows a manager's staff may have produced (all columns the seven
\* scoped queries read): the last hour, the small hours of today, yesterday
\* morning, the small hours two days ago, and nine days ago.
RowTemplates ==
    { [ staff_name |-> "alice", staff_id |-> "s1", staff_role |-> "Admin",
        action_type |-> "UPDATE", category |-> "ORDERS", table_affected |-> "orders",
        ts |-> Now, compliance |-> TRUE ],
      [ staff_name |-> "alina", staff_id |-> "s2", staff_role |-> "Clerk",
        action_type |-> "DROP", category |-> "INVENTORY", table_affected |-> "inventory",
        ts |-> Now - 2, compliance |-> FALSE ],
      [ staff_name |-> "bob", staff_id |-> "s3", staff_role |-> "Clerk",
        action_type |-> "UPDATE", category |-> "ORDERS", table_affected |-> "orders",
        ts |-> Now - 19, compliance |-> TRUE ],
      [ staff_name |-> "alice", staff_id |-> "s1", staff_role |-> "Admin",
        action_type |-> "UPDATE", category |-> "ORDERS", table_affected |-> "orders",
        ts |-> Now - 50, compliance |-> TRUE ],
      [ staff_name |-> "bob", staff_id |-> "s3", staff_role |-> "Clerk",
        action_type |-> "DELETE", category |-> "INVENTORY", table_affected |-> "inventory",
        ts |-> Now - 216, compliance |-> FALSE ] }

MakeRow(id, m, t) ==
    [ id |-> id, manager_id |-> m,
      staff_name |-> t.staff_name, staff_id |-> t.staff_id, staff_role |-> t.staff_role,
      action_type |-> t.action_type, category |-> t.category,
      table_affected |-> t.table_affected, ts |-> t.ts, compliance |-> t.compliance ]

\* str.upper() and str.lower() on the filter values callers pass.
Upper(x) == CASE x = "orders" -> "ORDERS" [] x = "drop" -> "DROP" [] OTHER -> x

Lower(x) == CASE x = "ORDERS" -> "orders" [] x = "DROP" -> "drop" [] OTHER -> x

\* staff_name ILIKE '%<identifier>%': case-insensitive substring.
ILike(name, identifier) ==
    \/ identifier = ""
    \/ identifier = "ali" /\ name \in {"alice", "alina"}
    \/ identifier = name

\* The arguments of a scoped call; a tool reads only its own.
NoArgs ==
    [ limit |-> 10, category |-> None, staff |-> None, days |-> 7,
      table |-> None, action |-> None ]

ScopedTools ==
    { "get_activity_summary", "get_recent_activity", "get_user_activity",
      "get_data_modifications", "get_failed_operations", "get_privileged_activity",
      "detect_anomalous_activity" }

ArgsFor(tool) ==
    CASE tool = "get_recent_activity" ->
           { [NoArgs EXCEPT !.limit = l, !.category = c] :
                 l \in {1, 10}, c \in {None, "orders"} }
      [] tool = "get_user_activity" ->
           { [NoArgs EXCEPT !.staff = i, !.days = d] :
                 i \in {"ali", "s3", ""}, d \in {1, 30} }
      [] tool = "get_data_modifications" ->
           { [NoArgs EXCEPT !.table = t, !.action = a, !.limit = l] :
                 t \in {None, "ORDERS"}, a \in {None, "drop"}, l \in {1, 20} }
      [] tool = "get_failed_operations" ->
           { [NoArgs EXCEPT !.limit = l] : l \in {1, 10} }
      [] tool = "get_privileged_activity" ->
           { [NoArgs EXCEPT !.days = d] : d \in {1, 30} }
      [] OTHER -> { NoArgs }

(* The WHERE clause of each query, for row r, manager_id m and arguments a. *)

WhereActivitySummary(r, m, a) ==
    r.manager_id = m /\ r.ts >= CurrentDate

WhereRecentActivity(r, m, a) ==
    /\ r.manager_id = m
    /\ a.category \notin {None, ""} => r.category = Upper(a.category)

\* manager_id = .. AND name ILIKE .. OR staff_id = .. without the parentheses:
\* AND binds tighter than OR.
WhereUserActivityUnparenthesised(r, m, a) ==
    /\ \/ r.manager_id = m /\ ILike(r.staff_name, a.staff)
       \/ r.staff_id = a.staff
    /\ r.ts >= CurrentDate - a.days * HoursPerDay

WhereUserActivity(r, m, a) ==
    /\ r.manager_id = m
    /\ ILike(r.staff_name, a.staff) \/ r.staff_id = a.staff
    /\ r.ts >= CurrentDate - a.days * HoursPerDay

WhereDataModifications(r, m, a) ==
    /\ r.manager_id = m
    /\ a.table \notin {None, ""} => r.table_affected = Lower(a.table)
    /\ a.action \notin {None, ""} => r.action_type = Upper(a.action)

WhereFailedOperations(r, m, a) ==
    r.manager_id = m

WherePrivilegedActivity(r, m, a) ==
    /\ r.manager_id = m
    /\ r.staff_role = "Admin" \/ r.action_type \in {"GRANT", "REVOKE", "ALTER", "DROP"}
    /\ r.ts >= CurrentDate - a.days * HoursPerDay

WhereBaseline(r, m, a) ==
    r.manager_id = m /\ r.ts > Now - BaselineDays * HoursPerDay

WhereRecentHour(r, m, a) ==
    r.manager_id = m /\ r.ts > Now - RecentHours

WhereLateAction(r, m, a) ==
    /\ r.manager_id = m
    /\ HourOf(r.ts) >= LateHourFrom /\ HourOf(r.ts) <= LateHourTo
    /\ r.ts > Now - TimingWindowHours

\* Every row some query of the tool selects.
Selected(tool, table, m, a) ==
    { r \in table :
        CASE tool = "get_activity_summary"    -> WhereActivitySummary(r, m, a)
          [] tool = "get_recent_activity"     -> WhereRecentActivity(r, m, a)
          [] tool = "get_user_activity"       -> WhereUserActivity(r, m, a)
          [] tool = "get_data_modifications"  -> WhereDataModifications(r, m, a)
          [] tool = "get_failed_operations"   -> WhereFailedOperations(r, m, a)
          [] tool = "get_privileged_activity" -> WherePrivilegedActivity(r, m, a)
          [] OTHER -> \/ WhereBaseline(r, m, a)
                      \/ WhereRecentHour(r, m, a)
                      \/ WhereLateAction(r, m, a) }

\* ORDER BY <timestamp> DESC. PostgreSQL leaves the order of equal timestamps
\* open; the model puts the higher id first.
RECURSIVE NewestFirst(_)
NewestFirst(rows) ==
    IF rows = {} THEN <<>>
    ELSE LET top == CHOOSE r \in rows :
                        \A q \in rows : r.ts > q.ts \/ (r.ts = q.ts /\ r.id >= q.id)
         IN <<top>> \o NewestFirst(rows \ {top})

\* LIMIT n
Limit(rowSeq, n) == SubSeq(rowSeq, 1, IF n < Len(rowSeq) THEN n ELSE Len(rowSeq))

\* The columns a tool puts in its report for one row (manager_id is not one).
Item(r) ==
    [ ref |-> r.id, time |-> r.ts, user |-> r.staff_name, role |-> r.staff_role,
      action |-> r.action_type, type |-> r.category, table |-> r.table_affected ]

Items(rowSeq) == [i \in 1..Len(rowSeq) |-> Item(rowSeq[i])]

Sentinel(tool) == [kind |-> "sentinel", text |-> EmptyReturn(tool), count |-> 0,
                   items |-> <<>>, groups |-> <<>>, level |-> None]

Report(rowSeq, groups, level) ==
    [kind |-> "report", text |-> <<>>, count |-> Len(rowSeq),
     items |-> Items(rowSeq), groups |-> groups, level |-> level]

ListReport(tool, rowSeq, level) ==
    IF rowSeq = <<>> THEN Sentinel(tool) ELSE Report(rowSeq, <<>>, level)

\* GROUP BY activity_type: COUNT(*) and the count of compliance_check = FALSE.
ActivitySummary(table, m, a) ==
    LET sel == {r \in table : WhereActivitySummary(r, m, a)}
        types == {r.category : r \in sel}
        groups == [t \in types |->
                     [ total_events |-> Cardinality({r \in sel : r.category = t}),
                       compliance_flags |->
                           Cardinality({r \in sel : r.category = t /\ ~r.compliance}) ]]
    IN IF sel = {} THEN Sentinel("get_activity_summary")
       ELSE [kind |-> "report", text |-> <<>>, count |-> Cardinality(sel),
             items |-> <<>>, groups |-> groups, level |-> None]

\* AVG(cnt) over the days of the trailing week that have rows: NULL without
\* rows (then `or 0` makes it the int 0), a Decimal otherwise.
AvgDaily(table, m, a) ==
    LET sel == {r \in table : WhereBaseline(r, m, a)}
    IN [ null |-> sel = {}, total |-> Cardinality(sel),
         days |-> Cardinality({DayOf(r.ts) : r \in sel}) ]

\* count(*) per staff_name over the trailing hour.
RecentStats(table, m, a) ==
    LET sel == {r \in table : WhereRecentHour(r, m, a)}
    IN { [name |-> n, count |-> Cardinality({r \in sel : r.staff_name = n})] :
           n \in {r.staff_name : r \in sel} }

\* `avg_daily * 0.5` with avg_daily a Decimal and 0.5 a float raises TypeError;
\* with the int 0 it is 0.0.
HalvingRaises(avg) == ~avg.null

\* count > avg_daily * 0.5 and avg_daily > 0, with avg_daily = total / days.
IsVolumeSpike(count, avg) ==
    2 * count * avg.days > avg.total /\ avg.total > 0

DetectAnomalies(table, m, a) ==
    LET avg == AvgDaily(table, m, a)
        recent == RecentStats(table, m, a)
        late == {r \in table : WhereLateAction(r, m, a)}
        volume == { [type |-> "Volume Spike", severity |-> "High", actor |-> st.name,
                     action |-> None, n |-> st.count, ref |-> 0] :
                       st \in {x \in recent : IsVolumeSpike(x.count, avg)} }
        timing == { [type |-> "Suspicious Timing", severity |-> "Medium",
                     actor |-> r.staff_name, action |-> r.action_type,
                     n |-> HourOf(r.ts), ref |-> r.id] :
                       r \in late }
    IN IF recent # {} /\ HalvingRaises(avg)
       THEN [kind |-> "error",
             text |-> ExceptReturn("detect_anomalous_activity",
                                   <<"unsupported", "operand", "type(s)">>),
             count |-> 0, items |-> <<>>, groups |-> <<>>, level |-> None]
       ELSE [kind |-> "report", text |-> <<>>,
             count |-> Cardinality(volume \cup timing),
             items |-> <<>>, groups |-> volume \cup timing, level |-> None]

\* What a scoped tool returns for manager m on the audit table.
ToolResult(tool, table, m, a) ==
    LET sel == Selected(tool, table, m, a)
    IN CASE tool = "get_activity_summary" -> ActivitySummary(table, m, a)
         [] tool \in {"get_recent_activity", "get_data_modifications",
                      "get_failed_operations"} ->
              ListReport(tool, Limit(NewestFirst(sel), a.limit), None)
         [] tool = "get_user_activity" -> ListReport(tool, NewestFirst(sel), None)
         [] tool = "get_privileged_activity" ->
              ListReport(tool, NewestFirst(sel),
                         IF Cardinality(sel) > PrivilegedHighAbove THEN "High" ELSE "Normal")
         [] OTHER -> DetectAnomalies(table, m, a)

(* The tenant's own application writes audit rows; a scoped tool reads them. *)

FreeId == CHOOSE id \in 1..MaxRows : \A r \in auditTable : r.id # id

InsertRow(m, t) ==
    /\ scoped = NoScopedCall
    /\ Cardinality(auditTable) < MaxRows
    /\ auditTable' = auditTable \cup {MakeRow(FreeId, m, t)}
    /\ UNCHANGED scoped
    /\ UNCHANGED <<toolVars, pipeVars, concVars, growthVars, authVars>>

DeleteRow(r) ==
    /\ scoped = NoScopedCall
    /\ r \in auditTable
    /\ auditTable' = auditTable \ {r}
    /\ UNCHANGED scoped
    /\ UNCHANGED <<toolVars, pipeVars, concVars, growthVars, authVars>>

UpdateRow(r, m, t) ==
    /\ scoped = NoScopedCall
    /\ r \in auditTable
    /\ MakeRow(r.id, m, t) # r
    /\ auditTable' = (auditTable \ {r}) \cup {MakeRow(r.id, m, t)}
    /\ UNCHANGED scoped
    /\ UNCHANGED <<toolVars, pipeVars, concVars, growthVars, authVars>>

\* One scoped tool call on a live connection, answered from the table as it is.
ScopedCall(tool, m, a) ==
    /\ scoped = NoScopedCall
    /\ a \in ArgsFor(tool)
    /\ scoped' = [ tool |-> tool, manager |-> m, args |-> a,
                   rows |-> Selected(tool, auditTable, m, a),
                   result |-> ToolResult(tool, auditTable, m, a) ]
    /\ UNCHANGED auditTable
    /\ UNCHANGED <<toolVars, pipeVars, concVars, growthVars, authVars>>

\* The caller has the answer; the application goes on writing.
ScopedCallAnswered ==
    /\ scoped # NoScopedCall
    /\ scoped' = NoScopedCall
    /\ UNCHANGED auditTable
    /\ UNCHANGED <<toolVars, pipeVars, concVars, growthVars, authVars>>

NextIsolation ==
    \/ \E m \in Managers, t \in RowTemplates : InsertRow(m, t)
    \/ \E r \in auditTable : DeleteRow(r)
    \/ \E r \in auditTable, m \in Managers, t \in RowTemplates : UpdateRow(r, m, t)
    \/ \E tool \in ScopedTools, m \in Managers :
           \E a \in ArgsFor(tool) : ScopedCall(tool, m, a)
    \/ ScopedCallAnswered

SpecIsolation == Init /\ [][NextIsolation]_vars

----------------------------------------------------------------------------
(* Tool invocations side by side: every converse request starts its own
   server process (main.py stdio_client), so invocations of the same or of
   different tenants overlap. Each one runs get_conn, its queries and its
   finally block on the local variable `conn`. *)

Tenants == {"t1", "t2"}

\* Invocations started so far, over all server processes.
RECURSIVE StartedUpTo(_)
StartedUpTo(w) == IF w = 0 THEN 0 ELSE workers[w].inv + StartedUpTo(w - 1)

Logged(w, id, op) == [conn |-> id, by |-> <<w, workers[w].inv>>, op |-> op]

WorkerInvoke(w, tenant) ==
    /\ workers[w].pc = "idle"
    /\ StartedUpTo(MaxWorkers) < MaxInvocations
    /\ workers' = [workers EXCEPT ![w] =
                     [IdleWorker EXCEPT !.pc = "connect", !.inv = workers[w].inv + 1,
                                        !.tenant = tenant]]
    /\ UNCHANGED <<conns, connLog>>
    /\ UNCHANGED <<call, ncalls, dbCommitted>>
    /\ UNCHANGED <<pipeVars, isoVars, growthVars, authVars>>

\* conn = get_conn(...)
WorkerConnects(w) ==
    /\ workers[w].pc = "connect"
    /\ conns' = OpenConnection
    /\ workers' = [workers EXCEPT ![w].pc = "body", ![w].conn = Len(conns')]
    /\ connLog' = connLog \cup {Logged(w, Len(conns'), "open")}
    /\ UNCHANGED <<call, ncalls, dbCommitted>>
    /\ UNCHANGED <<pipeVars, isoVars, growthVars, authVars>>

\* get_conn raises: the invocation ends without a connection.
WorkerConnectFails(w) ==
    /\ workers[w].pc = "connect"
    /\ workers' = [workers EXCEPT ![w].pc = "idle"]
    /\ UNCHANGED <<conns, connLog>>
    /\ UNCHANGED <<call, ncalls, dbCommitted>>
    /\ UNCHANGED <<pipeVars, isoVars, growthVars, authVars>>

\* cursor.execute / fetchall on `conn`; on a connection that is no longer
\* open the driver raises and the invocation goes to its except clause.
WorkerQueries(w) ==
    /\ workers[w].pc = "body"
    /\ workers' = [workers EXCEPT ![w].pc = "finally",
                                  ![w].live = (conns[workers[w].conn].state = "open")]
    /\ connLog' = connLog \cup {Logged(w, workers[w].conn, "use")}
    /\ UNCHANGED conns
    /\ UNCHANGED <<call, ncalls, dbCommitted>>
    /\ UNCHANGED <<pipeVars, isoVars, growthVars, authVars>>

\* finally: conn.close()
WorkerCloses(w) ==
    /\ workers[w].pc = "finally"
    /\ conns' = CloseConnection(conns, workers[w].conn)
    /\ workers' = [workers EXCEPT ![w].pc = "idle", ![w].conn = 0]
    /\ connLog' = connLog \cup {Logged(w, workers[w].conn, "close")}
    /\ UNCHANGED <<call, ncalls, dbCommitted>>
    /\ UNCHANGED <<pipeVars, isoVars, growthVars, authVars>>

NextConcurrent ==
    \/ \E w \in Workers, tenant \in Tenants : WorkerInvoke(w, tenant)
    \/ \E w \in Workers : WorkerConnects(w)
    \/ \E w \in Workers : WorkerConnectFails(w)
    \/ \E w \in Workers : WorkerQueries(w)
    \/ \E w \in Workers : WorkerCloses(w)

SpecConcurrent == Init /\ [][NextConcurrent]_vars

----------------------------------------------------------------------------
(* get_growth_trends (server.py): the per-table sizes in whole megabytes, as
   the query returns them, largest first. *)

MaxTables == 3

StorageLimitMb == 500

TableSizesMb == {0, 100, 200, 250, 300, 500, 600}

\* ORDER BY pg_total_relation_size(relid) DESC
LargestFirst(sizes) == \A i \in 1..Len(sizes) - 1 : sizes[i] >= sizes[i + 1]

SizeLists ==
    UNION { {sizes \in [1..n -> TableSizesMb] : LargestFirst(sizes)} : n \in 0..MaxTables }

\* total_db_size += row[1]
RECURSIVE TotalSize(_)
TotalSize(sizes) == IF sizes = <<>> THEN 0 ELSE Head(sizes) + TotalSize(Tail(sizes))

\* "storage_limit_utilization": the percentage with one decimal (kept in
\* tenths of a percent) if total_db_size < 500, else the warning.
Utilization(total) ==
    IF total < StorageLimitMb
    THEN [warning |-> FALSE, tenths |-> (total * 1000) \div StorageLimitMb]
    ELSE [warning |-> TRUE, tenths |-> 0]

\* round(<bigint>, 2) is a numeric in PostgreSQL and the driver delivers
\* numeric as decimal.Decimal, so size_mb and total_size_mb are Decimals.
SizeMbType == "Decimal"

\* json.dumps raises TypeError on a value that is not of a JSON type.
JsonSerializable(pytype) == pytype \in {"int", "float", "str", "list", "dict"}

\* What get_growth_trends returns for the fetched rows; `report` is the
\* dictionary it has built when json.dumps is called.
GrowthTrends(sizes) ==
    LET total == TotalSize(sizes)
        report == [total |-> total, utilization |-> Utilization(total)]
    IN CASE sizes = <<>> ->
              [kind |-> "sentinel", text |-> EmptyReturn("get_growth_trends"),
               report |-> report]
         [] sizes # <<>> /\ JsonSerializable(SizeMbType) ->
              [kind |-> "report", text |-> RowsReturn("get_growth_trends"),
               report |-> report]
         [] OTHER ->
              [kind |-> "error",
               text |-> ExceptReturn("get_growth_trends",
                            <<"Object", "of", "type", "Decimal", "is", "not",
                              "JSON", "serializable">>),
               report |-> report]

GrowthCall(sizes) ==
    /\ growth' = [tool |-> "get_growth_trends", sizes |-> sizes,
                  result |-> GrowthTrends(sizes)]
    /\ UNCHANGED <<toolVars, pipeVars, isoVars, concVars, authVars>>

NextGrowth == \E sizes \in SizeLists : GrowthCall(sizes)

SpecGrowth == Init /\ [][NextGrowth]_vars

----------------------------------------------------------------------------
(* The register and login handlers (main.py) on the master database, and
   converse for a manager without stored config. *)

MaxManagers == 2

Emails == {"ann@shop", "ben@shop", "cat@shop"}

Passwords == {"pw-1", "pw-2"}

\* pwd_context.hash / pwd_context.verify on the first 72 characters; the
\* passwords here are shorter than that.
HashPassword(password) == <<"bcrypt", password>>

VerifyPassword(plain, hashed) == hashed = <<"bcrypt", plain>>

\* str(e) of an HTTPException raised inside the try block.
StrOfHttpException(status, detail) == <<status, detail>>

\* The response of a handler whose try block raised `text` as an exception:
\* `except Exception` re-raises it as an HTTPException with ExceptStatus.
HandlerExcept(handler, email, found, raisedStatus, prefix, text) ==
    [ handler |-> handler, email |-> email, found |-> found, verified |-> FALSE,
      fault |-> IF raisedStatus = 500 THEN "database" ELSE "none",
      status |-> ExceptStatus(raisedStatus), detail |-> prefix \o text ]

RowsWithEmail(email) == {m \in managerConfigs : m.email = email}

\* POST /api/v1/register-manager
RegisterManager(email, password, fault) ==
    /\ CASE fault = "connect" ->
              /\ response' = HandlerExcept("register", email, FALSE, 500, <<>>,
                                           <<"connection", "refused">>)
              /\ UNCHANGED managerConfigs
         [] fault # "connect" /\ RowsWithEmail(email) # {} ->
              /\ fault = "none"
              /\ response' = HandlerExcept("register", email, TRUE, 400, <<>>,
                                 StrOfHttpException("400:", "Email already registered"))
              /\ UNCHANGED managerConfigs
         [] fault = "insert" /\ RowsWithEmail(email) = {} ->
              /\ response' = HandlerExcept("register", email, FALSE, 500, <<>>,
                                           <<"insert", "failed">>)
              /\ UNCHANGED managerConfigs
         [] OTHER ->
              /\ Cardinality(managerConfigs) < MaxManagers
              /\ managerConfigs' = managerConfigs \cup
                     { [ manager_id |-> Cardinality(managerConfigs) + 1, email |-> email,
                         password_hash |-> HashPassword(password) ] }
              /\ response' = [ handler |-> "register", email |-> email, found |-> FALSE,
                               verified |-> FALSE, fault |-> "none", status |-> 200,
                               detail |-> <<"success">> ]
    /\ UNCHANGED <<toolVars, pipeVars, isoVars, concVars, growthVars>>

\* POST /api/v1/login
Login(email, password, fault) ==
    /\ LET found == RowsWithEmail(email) # {}
           verified == \E m \in RowsWithEmail(email) :
                           VerifyPassword(password, m.password_hash)
       IN response' =
            CASE fault = "connect" ->
                   HandlerExcept("login", email, FALSE, 500, <<"Login", "Error:">>,
                                 <<"connection", "refused">>)
              [] fault = "none" /\ ~(found /\ verified) ->
                   HandlerExcept("login", email, found, 401, <<"Login", "Error:">>,
                                 StrOfHttpException("401:", "Invalid email or password"))
              [] OTHER ->
                   [ handler |-> "login", email |-> email, found |-> TRUE,
                     verified |-> TRUE, fault |-> "none", status |-> 200,
                     detail |-> <<"success">> ]
    /\ UNCHANGED managerConfigs
    /\ UNCHANGED <<toolVars, pipeVars, isoVars, concVars, growthVars>>

NextAuth ==
    \/ \E email \in Emails, password \in Passwords, fault \in {"none", "connect", "insert"} :
           RegisterManager(email, password, fault)
    \/ \E email \in Emails, password \in Passwords, fault \in {"none", "connect"} :
           Login(email, password, fault)
    \/ \E cid \in ConversationIds : ConverseStart(cid, "no_config")

SpecAuth == Init /\ [][NextAuth]_vars

----------------------------------------------------------------------------
(* Properties of the tool catalogue, checked under Spec *)

\* The tag the specification's list of error tags gives each tool.
SpecTag(tool) ==
    CASE tool \in {"get_activity_summary", "clone_product_by_name"} -> <<"Database", "Error:">>
      [] tool = "get_recent_activity"       -> <<"Audit", "Error:">>
      [] tool = "get_user_activity"         -> <<"Accountability", "Audit", "Error:">>
      [] tool = "get_data_modifications"    -> <<"Modification", "Audit", "Error:">>
      [] tool = "get_active_connections"    -> <<"System", "Health", "Error:">>
      [] tool = "get_slow_queries"          -> <<"Performance", "Audit", "Error:">>
      [] tool = "get_failed_operations"     -> <<"Diagnostic", "Tool", "Error:">>
      [] tool = "get_privileged_activity"   -> <<"Security", "Audit", "Error:">>
      [] tool = "detect_anomalous_activity" -> <<"Anomaly", "Detection", "Error:">>
      [] tool = "get_growth_trends"         -> <<"Growth", "Analysis", "Error:">>
      [] tool = "execute_sql"               -> <<"SQL", "Error:">>
      [] OTHER                              -> <<"Error:">>

CallFinished == call.pc = "done"

ConnectionClosed(id) == id \in 1..Len(conns) /\ conns[id].state = "closed"

WritesOfCall == {w \in dbCommitted : w.call = ncalls}

\* C1: a tool call that opened a connection has closed it by the time it
\* returns, on the normal, the empty-result and the caught-error path alike;
\* the only connection ever open is the one of the call still running.
C1_ConnectionReleasedOnEveryExit ==
    /\ CallFinished /\ call.conn # 0 => ConnectionClosed(call.conn)
    /\ \A id \in 1..Len(conns) :
           conns[id].state = "open" => call.pc = "body" /\ call.conn = id

C1_Witness_ClosedAfterCaughtError ==
    /\ CallFinished /\ call.exit = "except" /\ call.conn # 0
    /\ ConnectionClosed(call.conn)

\* C2: on a connect failure a tool makes one connection attempt and returns
\* its tagged error text; no exception leaves the tool.
C2_ConnectFailureReturnsTaggedText ==
    CallFinished /\ call.fault = "connect" =>
        /\ call.attempts = 1
        /\ call.raised = "none"
        /\ StartsWith(call.result, SpecTag(call.tool))

\* C3: a query or row-formatting failure on a live connection makes the tool
\* return a text that begins with the tool's fixed tag; nothing is raised and
\* the connection is closed.
C3_QueryFailureReturnsFixedTag ==
    CallFinished /\ call.fault \in {"query", "format"} =>
        /\ call.raised = "none"
        /\ StartsWith(call.result, SpecTag(call.tool))
        /\ ConnectionClosed(call.conn)

C3_Witness_FormatFailureTagged ==
    /\ CallFinished /\ call.tool = "detect_anomalous_activity"
    /\ call.fault = "format"
    /\ StartsWith(call.result, <<"Anomaly", "Detection", "Error:">>)

\* C4: inspect_schema never raises: a connection error and a query error both
\* come back as a text 'Error: <message>'.
C4_InspectSchemaNeverRaises ==
    CallFinished /\ call.tool = "inspect_schema" =>
        /\ call.raised = "none"
        /\ call.fault # "none" => StartsWith(call.result, <<"Error:">>)

\* C5: execute_sql on a statement that runs without error returns the
\* serialized rows and commits nothing when there is a result set, and commits
\* and returns 'Operation successful.' when there is none; execute_sql commits
\* on no other path.
C5_ExecuteSqlCommitsOnlyWithoutResultSet ==
    CallFinished /\ call.tool = "execute_sql" =>
        /\ call.fault = "none" /\ HasResultSet(call.sql) =>
               /\ call.result = <<"[">> \o call.rows \o <<"]">>
               /\ ~call.committed
               /\ WritesOfCall = {}
        /\ call.fault = "none" /\ ~HasResultSet(call.sql) =>
               /\ call.result = <<"Operation", "successful.">>
               /\ call.committed
               /\ Mutates(call.sql) => WritesOfCall # {}
        /\ call.committed \/ WritesOfCall # {} =>
               call.fault = "none" /\ ~HasResultSet(call.sql)

C5_Witness_CommittedWithoutResultSet ==
    /\ CallFinished /\ call.tool = "execute_sql" /\ call.sql = <<"INSERT">>
    /\ call.committed /\ WritesOfCall # {}
    /\ call.result = <<"Operation", "successful.">>

\* C6: execute_sql never raises: an invalid statement, a rejected statement
\* and a failed connection all give a text that begins with 'SQL Error:' and
\* ends with 'Check schema and try again.', and nothing is committed.
C6_ExecuteSqlFailureIsText ==
    CallFinished /\ call.tool = "execute_sql" =>
        /\ call.raised = "none"
        /\ call.fault # "none" =>
               /\ StartsWith(call.result, <<"SQL", "Error:">>)
               /\ EndsWith(call.result, <<"Check", "schema", "and", "try", "again.">>)
               /\ ~call.committed
               /\ WritesOfCall = {}

C6_Witness_ConnectFailureAsText ==
    /\ CallFinished /\ call.tool = "execute_sql" /\ call.fault = "connect"
    /\ call.raised = "none"
    /\ StartsWith(call.result, <<"SQL", "Error:">>)

----------------------------------------------------------------------------
(* Properties of the pipeline, checked under SpecPipeline *)

IsPrefix(s, t) == Len(s) <= Len(t) /\ s = SubSeq(t, 1, Len(s))

Occurrences(s, x) == Cardinality({i \in 1..Len(s) : s[i] = x})

Invoked(stage) == Contains(run.stages, stage)

\* C7: in one run the stages are invoked in the order Discover (inspect_schema),
\* Synthesize, Execute (execute_sql), Summarize, each at most once, and once
\* Execute has returned an error neither Synthesize nor Execute runs again.
C7_StagesInOrderEachAtMostOnce ==
    /\ IsPrefix(run.stages, StageOrder)
    /\ run.pc = "discover_wait" => call.tool = "inspect_schema"
    /\ run.pc = "execute_wait" => call.tool = "execute_sql"
    /\ run.execFault # "none" =>
           /\ Occurrences(run.stages, "Synthesize") = 1
           /\ Occurrences(run.stages, "Execute") = 1
           /\ run.pc \notin {"synthesize", "execute", "execute_wait"}

C7_Witness_RunEndedAfterExecuteError ==
    /\ run.pc = "responded" /\ run.execFault = "query"
    /\ run.stages = <<"Discover", "Synthesize", "Execute">>

\* C8 as stated: a tenant-database connect failure in Discover aborts the run
\* before Synthesize and Execute; a schema query error is passed on as the
\* schema context and the run goes on.
C8_ConnectFailureAbortsRun ==
    /\ run.discoverFault = "connect" =>
           /\ run.failedAt = "Discover"
           /\ ~Invoked("Synthesize") /\ ~Invoked("Execute")
    /\ run.discoverFault = "query" =>
           /\ run.failedAt # "Discover"
           /\ StartsWith(run.schema, <<"Error:">>)

\* C8 amended: the run aborts at Discover, with neither Synthesize nor Execute
\* invoked, exactly when the inspect_schema call itself raises in the
\* pipeline; every text the call returns becomes the schema context and
\* Synthesize comes next, for a schema query error ('Error: ...') and also
\* for a connect failure that the protocol reports as the call's text.
C8_RunAbortsOnlyWhenDiscoverCallRaises ==
    /\ run.failedAt = "Discover" =>
           /\ run.pc = "responded" /\ run.status = 500
           /\ run.schema = <<>>
           /\ ~Invoked("Synthesize") /\ ~Invoked("Execute")
    /\ run.discoverFault # "none" /\ run.failedAt # "Discover" =>
           /\ run.schema # <<>>
           /\ run.discoverFault = "query" => StartsWith(run.schema, <<"Error:">>)
           /\ run.pc = "synthesize" \/ Invoked("Synthesize")

C8_Witness_QueryErrorReachesSynthesis ==
    /\ run.discoverFault = "query" /\ Invoked("Synthesize")
    /\ StartsWith(run.schema, <<"Error:">>)

\* C9: when Execute has committed a mutating statement and Summarize then
\* fails, the request ends in failure and the tenant database still holds the
\* committed change.
C9_CommitSurvivesSummarizeFailure ==
    /\ run.pc = "responded" /\ run.failedAt = "Summarize"
    /\ run.raw = <<"Operation", "successful.">> /\ Mutates(run.sql)
    => /\ run.status = 500
       /\ [call |-> run.execCall, sql |-> run.sql] \in dbCommitted

C9_Witness_FailedRequestAfterCommit ==
    /\ run.pc = "responded" /\ run.failedAt = "Summarize" /\ run.status = 500
    /\ run.sql = <<"INSERT">>
    /\ [call |-> run.execCall, sql |-> <<"INSERT">>] \in dbCommitted

----------------------------------------------------------------------------
(* Tenant isolation, checked under SpecIsolation *)

OwnRows(table, m) == {r \in table : r.manager_id = m}

\* C10: a scoped tool called with manager A's identifier selects and counts
\* only rows whose manager_id is A, and its result is the one it gives on the
\* table with every other manager's rows removed: no row of another manager,
\* added, removed or changed, alters the result, whatever filters are given.
C10_TenantIsolation ==
    scoped # NoScopedCall =>
        /\ \A r \in scoped.rows : r.manager_id = scoped.manager
        /\ scoped.result =
               ToolResult(scoped.tool, OwnRows(auditTable, scoped.manager),
                          scoped.manager, scoped.args)

C10_Witness_OtherManagersRowMatchesFilters ==
    /\ scoped # NoScopedCall
    /\ scoped.tool = "get_user_activity" /\ scoped.manager = "A"
    /\ scoped.args.staff = "s3"
    /\ scoped.result.kind = "report" /\ scoped.result.count = 1
    /\ \E r \in auditTable : r.manager_id = "B" /\ r.staff_id = "s3"

----------------------------------------------------------------------------
(* The anomaly engine, checked under SpecIsolation *)

DetectCall == scoped # NoScopedCall /\ scoped.tool = "detect_anomalous_activity"

AlertsOfType(type) == {al \in scoped.result.groups : al.type = type}

\* The actor's number of actions in the trailing hour, and the per-day counts
\* of the trailing seven days (their mean is avg_daily = total / days).
HourlyCount(actor) ==
    Cardinality({r \in OwnRows(auditTable, scoped.manager) :
                    r.staff_name = actor /\ r.ts > Now - RecentHours})

WeekRows ==
    {r \in OwnRows(auditTable, scoped.manager) : r.ts > Now - BaselineDays * HoursPerDay}

WeekDays == {DayOf(r.ts) : r \in WeekRows}

\* hourly_count > 0.5 x avg_daily and avg_daily > 0, in whole numbers.
OverThreshold(actor) ==
    /\ WeekRows # {}
    /\ 2 * HourlyCount(actor) * Cardinality(WeekDays) > Cardinality(WeekRows)

Actors == {t.staff_name : t \in RowTemplates}

\* C11: detect_anomalous_activity returns the completed analysis, with exactly
\* one Volume Spike alert of severity High for each actor whose trailing-hour
\* count is over half the daily average (and the average is positive), and
\* none for any other actor.
C11_VolumeSpikePerActorOverThreshold ==
    DetectCall =>
        /\ scoped.result.kind = "report"
        /\ \A actor \in Actors :
              Cardinality({al \in AlertsOfType("Volume Spike") :
                              al.actor = actor /\ al.severity = "High"})
                  = IF OverThreshold(actor) THEN 1 ELSE 0

\* The hour-of-day 0..5 actions of the manager in the trailing 24 hours.
LateRows ==
    {r \in OwnRows(auditTable, scoped.manager) :
        HourOf(r.ts) \in LateHourFrom..LateHourTo /\ r.ts > Now - TimingWindowHours}

\* C12: detect_anomalous_activity returns one Suspicious Timing alert of
\* severity Medium for every action of the manager in the trailing 24 hours at
\* hour-of-day 0..5, none for any other action, without deduplication, and
\* anomalies_found is the number of alerts returned.
C12_SuspiciousTimingPerLateRow ==
    DetectCall =>
        /\ scoped.result.kind = "report"
        /\ {al.ref : al \in AlertsOfType("Suspicious Timing")} = {r.id : r \in LateRows}
        /\ Cardinality(AlertsOfType("Suspicious Timing")) = Cardinality(LateRows)
        /\ \A al \in AlertsOfType("Suspicious Timing") : al.severity = "Medium"
        /\ scoped.result.count = Cardinality(scoped.result.groups)

----------------------------------------------------------------------------
(* clone_product_by_name, checked under Spec *)

CloneFinished == CallFinished /\ call.tool = "clone_product_by_name"

CloneSucceeded == call.raised = "none" /\ StartsWith(call.result, <<"Successfully", "added">>)

\* C13: a clone whose source name matches no product returns the explicit
\* not-found text and adds no product; and any clone call that does not return
\* the success message, whether it returned another text or raised, has
\* committed no new row.
C13_FailedCloneAddsNoProduct ==
    CloneFinished =>
        /\ ~CloneSucceeded => WritesOfCall = {}
        /\ (/\ call.fault = "none"
            /\ call.sql # NoSql
            /\ call.sql[1] \notin ProductNamesIn(dbCommitted \ WritesOfCall))
           => /\ call.result =
                     <<"Error:", "Source", "product", call.sql[1], "not", "found.">>
              /\ call.raised = "none"
              /\ WritesOfCall = {}

C13_Witness_UnknownSourceNotFound ==
    /\ CloneFinished
    /\ call.exit = "sentinel"
    /\ call.sql # NoSql /\ call.sql[1] = "gadget"
    /\ "gadget" \notin ProductNamesIn(dbCommitted)

----------------------------------------------------------------------------
(* Empty results, checked under Spec *)

\* A plain sentence, as opposed to a serialized list or object.
PlainSentence(text) == text # <<>> /\ text[1] \notin {"[", "{"}

\* C14: a tool whose query yields zero rows returns an explicit plain-text
\* "no records" sentence, never an empty serialized list or an object with
\* empty collections; inspect_schema, track_activity, execute_sql and
\* detect_anomalous_activity included.
C14_EmptyResultReturnsSentinel ==
    (CallFinished /\ call.empty) =>
        /\ call.raised = "none"
        /\ PlainSentence(call.result)

----------------------------------------------------------------------------
(* Connection ownership, checked under SpecConcurrent *)

HoldsConnection(w) == workers[w].pc \in {"body", "finally"}

\* C15: under any interleaving of tool invocations, every connection is
\* opened, used and closed by one invocation only; two running invocations
\* never hold the same connection, and the connection of a running invocation
\* is open until that invocation closes it itself.
C15_ConnectionsNeverShared ==
    /\ \A e1 \in connLog, e2 \in connLog : e1.conn = e2.conn => e1.by = e2.by
    /\ \A w1 \in Workers, w2 \in Workers :
          (w1 # w2 /\ HoldsConnection(w1) /\ HoldsConnection(w2))
              => workers[w1].conn # workers[w2].conn
    /\ \A w \in Workers :
          HoldsConnection(w) => conns[workers[w].conn].state = "open" /\ workers[w].live

C15_Witness_CloseWhileOtherRuns ==
    \E w1 \in Workers, w2 \in Workers :
        /\ w1 # w2
        /\ workers[w1].tenant = workers[w2].tenant
        /\ workers[w1].pc = "idle" /\ workers[w1].inv > 0
        /\ \E e \in connLog : e.by = <<w1, workers[w1].inv>> /\ e.op = "close"
        /\ workers[w2].pc = "finally"
        /\ workers[w2].conn < Len(conns)

----------------------------------------------------------------------------
(* Capacity report, checked under SpecGrowth *)

\* C16: for a database with tables, get_growth_trends reports the near-limit
\* warning exactly when the summed size is strictly greater than 500 MB, and
\* otherwise the utilization percentage total / 500 * 100; a total of exactly
\* 500 MB is reported as 100.0 %.
C16_WarningExactlyAboveCapacity ==
    (growth # NoGrowthCall /\ growth.sizes # <<>>) =>
        LET total == TotalSize(growth.sizes)
        IN /\ growth.result.kind = "report"
           /\ growth.result.report.utilization.warning <=> total > 500
           /\ total <= 500 =>
                  growth.result.report.utilization.tenths = (total * 1000) \div 500

----------------------------------------------------------------------------
(* Summarize after Execute, checked under SpecPipeline *)

\* execute_sql returned its rows or the success text to the pipeline.
ExecuteSucceeded == run.raw # <<>> /\ run.execFault = "none"

ExecuteFailed == run.raw # <<>> /\ run.execFault # "none"

AfterExecuteStage == run.pc \in {"persist", "responded"} /\ run.raw # <<>>

\* C17: Summarize is invoked exactly when Execute succeeded: after an Execute
\* that returned rows (whatever they contain) or the success text there is one
\* Summarize call, and its answer is the run's message; after an Execute that
\* returned an error there is no Summarize call and the message is the fixed
\* failure message.
C17_SummarizeExactlyWhenExecuteSucceeded ==
    AfterExecuteStage =>
        /\ ExecuteSucceeded =>
              /\ Occurrences(run.stages, "Summarize") = 1
              /\ run.failedAt = "none" => run.message = LlmSummary
        /\ ExecuteFailed =>
              /\ ~Invoked("Summarize")
              /\ run.message = DatabaseFailureMessage

----------------------------------------------------------------------------
(* History persistence, checked under SpecPipeline *)

\* C18: history is written all or nothing per request. The step that ends a
\* request with success appends exactly the user prompt and then the
\* assistant reply under one conversation id whose thread row exists, the id
\* being new when the request had none or a 'conv_' one and the request's id
\* otherwise; every other step, a failing pipeline or persistence step
\* included, leaves threads and messages as they were.
C18_HistoryAllOrNothing ==
    [][ IF run'.pc = "responded" /\ run.pc # "responded" /\ run'.status = 200
        THEN LET supplied == run.cid
                 real == run'.cid
             IN /\ messages' = messages \o
                       << [conv |-> real, role |-> "user", content |-> Prompt],
                          [conv |-> real, role |-> "assistant",
                           content |-> run'.message] >>
                /\ threads' = threads \cup {real}
                /\ IF supplied = NoConversation \/ supplied = "conv_1"
                   THEN real # supplied /\ real \notin threads
                   ELSE real = supplied
        ELSE UNCHANGED <<threads, messages>> ]_vars

C18_Witness_PersistenceFailedNothingWritten ==
    /\ run.pc = "responded"
    /\ run.failedAt = "Persist"
    /\ Invoked("Summarize")
    /\ threads = {} /\ messages = <<>>

----------------------------------------------------------------------------
(* Rejections of the HTTP handlers, checked under SpecAuth *)

\* C19: the rejections raised inside the handlers reach the client with their
\* own status: a login with an unknown email or a wrong password answers 401
\* 'Invalid email or password', a registration with an email already
\* registered answers 400, and converse for a manager without stored config
\* answers 404; none of them answers 500.
C19_RejectionsKeepTheirStatus ==
    /\ (/\ response.handler = "login" /\ response.fault = "none"
        /\ ~(response.found /\ response.verified))
       => /\ response.status = 401
          /\ response.detail = <<"Invalid email or password">>
    /\ (response.handler = "register" /\ response.fault = "none" /\ response.found)
       => response.status = 400
    /\ (run.pc = "responded" /\ run.failedAt = "Config") => run.status = 404

====
